---- MODULE Spec2Model ----
(***************************************************************************)
(* netbox2netshot: one run of main() (src/main.rs).  Netbox is the         *)
(* source-of-truth inventory, Netshot the configuration-management one.    *)
(*                                                                         *)
(* Strings are sequences of one-character strings ("10/8" is               *)
(* <<"1","0","/","8">>), so that split("/") and to_string() are computed.  *)
(* Option<T> is a sequence of length 0 (None) or 1 (Some(x)).              *)
(* A HashMap is a function whose DOMAIN is its key set.                    *)
(***************************************************************************)
EXTENDS Naturals, Sequences, FiniteSets

\* ---------------------------------------------------------------- bounds
\* Total number of records Netbox returns (devices plus virtual machines).
MaxNetboxRecords == 2
\* Number of devices Netshot returns.
MaxNetshotDevices == 2

\* ------------------------------------------------------------- std types
None == <<>>
Some(x) == <<x>>
IsSome(o) == Len(o) = 1
Unwrap(o) == o[1]

Range(s) == {s[i] : i \in 1..Len(s)}
Last(s) == s[Len(s)]
SeqsUpTo(S, n) == UNION {[1..k -> S] : k \in 0..n}

\* Every order in which the keys of a HashMap can be iterated.
Orderings(S) ==
  {s \in [1..Cardinality(S) -> S] : \A i, j \in 1..Cardinality(S) : s[i] = s[j] => i = j}

Digits == <<"0", "1", "2", "3", "4", "5", "6", "7", "8", "9">>

\* u32::to_string: the decimal digits, most significant first.
RECURSIVE ToString(_)
ToString(n) ==
  IF n < 10 THEN <<Digits[n + 1]>>
  ELSE ToString(n \div 10) \o <<Digits[(n % 10) + 1]>>

\* str::split("/").next().unwrap(): the text before the first '/', the whole
\* text when there is none (split always yields at least one piece).
SplitNext(s) ==
  LET at == {i \in 1..Len(s) : s[i] = "/"}
  IN  IF at = {} THEN s
      ELSE SubSeq(s, 1, (CHOOSE i \in at : \A j \in at : i <= j) - 1)

\* Insert as entry(k).or_insert(v) would do it: the first value is kept.
Insert_KeepFirst(map, k, v) ==
  [x \in (DOMAIN map) \cup {k} |-> IF x \in DOMAIN map THEN map[x] ELSE v]

\* HashMap::insert: a later value replaces the one stored under the key.
Insert(map, k, v) ==
  [x \in (DOMAIN map) \cup {k} |-> IF x = k THEN v ELSE map[x]]

EmptyMap == [x \in {} |-> <<>>]

\* Iterator::collect::<HashMap<_, _>>(): insert the pairs in order.
RECURSIVE Collect(_)
Collect(pairs) ==
  IF pairs = <<>> THEN EmptyMap
  ELSE LET p == Last(pairs)
       IN  Insert(Collect(SubSeq(pairs, 1, Len(pairs) - 1)), p[1], p[2])

\* ---------------------------------------------------- inputs of one run
Ids == {12}
Names == {<<"r">>}
Addresses == {<<"1">>, <<"1", "/", "8">>, <<"3", "/", "8">>, <<"/", "8">>}
NetshotIps == {<<"1">>, <<"2">>}
NetshotNames == {<<"s">>}
VmsFilters == {<<"q">>}

\* netbox::Device as main() reads it: id, name, primary_ip4.address.
NetboxDevice ==
  [id : Ids,
   name : {None} \cup {Some(n) : n \in Names},
   primary_ip4 : {None} \cup {Some([address |-> a]) : a \in Addresses}]

\* netshot::Device as main() reads it: name, management_address.ip.
NetshotDevice ==
  [name : NetshotNames, management_address : [ip : NetshotIps]]

\* What a failed register_device / disable_device call may carry: an error
\* of the transport, or one of the server that names the device.
ActionErrors(ip) ==
  {<<"timeout">>, <<"device ">> \o ip \o <<" rejected">>}

VARIABLES
  pc,                            \* position in main()
  check,                         \* opt.check
  netbox_vms_filter,             \* opt.netbox_vms_filter
  netshot_devices,
  netshot_simplified_inventory,
  netbox_devices,
  netbox_simplified_devices,
  devices_to_register,
  devices_to_disable,
  reg_done,                      \* iterations done of the register loop
  dis_done,                      \* iterations done of the disable loop
  calls,                         \* register_device / disable_device calls made
  log,                           \* log::warn! lines
  trace,                         \* steps of main() taken, with their outcome
  result                         \* "running"; exit status 0: "ok" (Ok(())), "help";
                                 \* non-zero: "usage", "err" (Err), "panic"

vars ==
  <<pc, check, netbox_vms_filter, netshot_devices, netshot_simplified_inventory,
    netbox_devices, netbox_simplified_devices, devices_to_register,
    devices_to_disable, reg_done, dis_done, calls, log, trace, result>>

data ==
  <<netshot_devices, netshot_simplified_inventory, netbox_devices,
    netbox_simplified_devices, devices_to_register, devices_to_disable,
    reg_done, dis_done, calls, log>>

\* The process is started; the command line is not parsed yet (the two
\* options hold what they hold when they are not given).
Init ==
  /\ pc = "args"
  /\ check = FALSE
  /\ netbox_vms_filter = None
  /\ netshot_devices = <<>>
  /\ netshot_simplified_inventory = EmptyMap
  /\ netbox_devices = <<>>
  /\ netbox_simplified_devices = EmptyMap
  /\ devices_to_register = <<>>
  /\ devices_to_disable = <<>>
  /\ reg_done = 0
  /\ dis_done = 0
  /\ calls = <<>>
  /\ log = <<>>
  /\ trace = <<>>
  /\ result = "running"

Event(step, ok) == [step |-> step, ok |-> ok]

\* A step of main() that succeeded: control moves on to `next`.
Proceed(step, next) ==
  /\ pc' = next
  /\ trace' = Append(trace, Event(step, TRUE))
  /\ result' = result

\* `?` on an Err (status "err"), unwrap() on an Err (status "panic") or a
\* usage error of the command line (status "usage"): the run ends at once.
Abort(step, status) ==
  /\ pc' = "done"
  /\ trace' = Append(trace, Event(step, FALSE))
  /\ result' = status

\* let opt: Opt = Opt::from_args();  an Opt, or the process is ended there:
\* with a failure status on a usage error (a required option missing, a
\* value that does not parse), with status 0 on --help / --version.
ParseArgs ==
  /\ pc = "args"
  /\ \/ /\ check' \in BOOLEAN
        /\ netbox_vms_filter' \in {None} \cup {Some(f) : f \in VmsFilters}
        /\ Proceed("args", "logger")
     \/ /\ Abort("args", "usage")
        /\ UNCHANGED <<check, netbox_vms_filter>>
     \/ /\ pc' = "done"
        /\ trace' = Append(trace, Event("args", TRUE))
        /\ result' = "help"
        /\ UNCHANGED <<check, netbox_vms_filter>>
  /\ UNCHANGED data

\* Logger::try_with_str(..)?  ...  .start().unwrap()
LoggerInit ==
  /\ pc = "logger"
  /\ \/ Proceed("logger", "netbox_new")
     \/ Abort("logger", "err")
     \/ Abort("logger", "panic")
  /\ UNCHANGED <<check, netbox_vms_filter, data>>

\* A fallible call of the start-up sequence, followed by `?`.
Startup(step, next) ==
  /\ pc = step
  /\ \/ Proceed(step, next)
     \/ Abort(step, "err")
  /\ UNCHANGED <<check, netbox_vms_filter, data>>

NetboxNew == Startup("netbox_new", "netbox_ping")
NetboxPing == Startup("netbox_ping", "netshot_new")
NetshotNew == Startup("netshot_new", "netshot_ping")
NetshotPing == Startup("netshot_ping", "fetch_netshot")

\* let netshot_devices = netshot_client.get_devices()?;
NetshotGetDevices ==
  /\ pc = "fetch_netshot"
  /\ \/ \E devs \in SeqsUpTo(NetshotDevice, MaxNetshotDevices) :
          /\ netshot_devices' = devs
          /\ Proceed("fetch_netshot", "normalize_netshot")
     \/ /\ Abort("fetch_netshot", "err")
        /\ UNCHANGED netshot_devices
  /\ UNCHANGED <<check, netbox_vms_filter, netshot_simplified_inventory,
                 netbox_devices, netbox_simplified_devices, devices_to_register,
                 devices_to_disable, reg_done, dis_done, calls, log>>

\* .map(|dev| (dev.management_address.ip, dev.name))
NetshotPairs(devs) ==
  [i \in 1..Len(devs) |-> <<devs[i].management_address.ip, devs[i].name>>]

NetshotNormalize ==
  /\ pc = "normalize_netshot"
  /\ netshot_simplified_inventory' = Collect(NetshotPairs(netshot_devices))
  /\ Proceed("normalize_netshot", "fetch_netbox")
  /\ UNCHANGED <<check, netbox_vms_filter, netshot_devices, netbox_devices,
                 netbox_simplified_devices, devices_to_register,
                 devices_to_disable, reg_done, dis_done, calls, log>>

\* The virtual machines listed whether or not a filter was given.
AfterDevices_Always == "fetch_vms"

\* if opt.netbox_vms_filter.is_some() { .. }
AfterDevices ==
  IF IsSome(netbox_vms_filter) THEN "fetch_vms" ELSE "normalize_netbox"

\* let mut netbox_devices = netbox_client.get_devices(&opt.netbox_devices_filter)?;
NetboxGetDevices ==
  /\ pc = "fetch_netbox"
  /\ \/ \E devs \in SeqsUpTo(NetboxDevice, MaxNetboxRecords) :
          /\ netbox_devices' = devs
          /\ Proceed("fetch_netbox", AfterDevices)
     \/ /\ Abort("fetch_netbox", "err")
        /\ UNCHANGED netbox_devices
  /\ UNCHANGED <<check, netbox_vms_filter, netshot_devices,
                 netshot_simplified_inventory, netbox_simplified_devices,
                 devices_to_register, devices_to_disable, reg_done, dis_done,
                 calls, log>>

\* get_vms(..).unwrap_or_default(): a failed listing counts as an empty one.
NetboxGetVms_IgnoreError ==
  /\ pc = "fetch_vms"
  /\ \/ \E vms \in SeqsUpTo(NetboxDevice, MaxNetboxRecords - Len(netbox_devices)) :
          /\ netbox_devices' = netbox_devices \o vms
          /\ Proceed("fetch_vms", "normalize_netbox")
     \/ /\ pc' = "normalize_netbox"
        /\ trace' = Append(trace, Event("fetch_vms", FALSE))
        /\ result' = result
        /\ UNCHANGED netbox_devices
  /\ UNCHANGED <<check, netbox_vms_filter, netshot_devices,
                 netshot_simplified_inventory, netbox_simplified_devices,
                 devices_to_register, devices_to_disable, reg_done, dis_done,
                 calls, log>>

\* let mut vms = netbox_client.get_vms(..)?;  netbox_devices.append(&mut vms);
NetboxGetVms ==
  /\ pc = "fetch_vms"
  /\ \/ \E vms \in SeqsUpTo(NetboxDevice, MaxNetboxRecords - Len(netbox_devices)) :
          /\ netbox_devices' = netbox_devices \o vms
          /\ Proceed("fetch_vms", "normalize_netbox")
     \/ /\ Abort("fetch_vms", "err")
        /\ UNCHANGED netbox_devices
  /\ UNCHANGED <<check, netbox_vms_filter, netshot_devices,
                 netshot_simplified_inventory, netbox_simplified_devices,
                 devices_to_register, devices_to_disable, reg_done, dis_done,
                 calls, log>>

\* device.name.unwrap_or(device.id.to_string())
Label(device) ==
  IF IsSome(device.name) THEN Unwrap(device.name) ELSE ToString(device.id)

\* The closure of filter_map: Some((ip, label)) or None.
Simplify(device) ==
  IF IsSome(device.primary_ip4)
  THEN Some(<<SplitNext(Unwrap(device.primary_ip4).address), Label(device)>>)
  ELSE None

\* .filter_map(..): the pairs of the devices that have one, in order.
RECURSIVE NetboxPairs(_)
NetboxPairs(devs) ==
  IF devs = <<>> THEN <<>>
  ELSE NetboxPairs(SubSeq(devs, 1, Len(devs) - 1)) \o Simplify(Last(devs))

MissingIpWarning(device) ==
  <<"Device ">> \o Label(device) \o <<" is missing its primary IP address, skipping it">>

\* The log::warn! lines of the None arm, in order.
RECURSIVE MissingIpWarnings(_)
MissingIpWarnings(devs) ==
  IF devs = <<>> THEN <<>>
  ELSE MissingIpWarnings(SubSeq(devs, 1, Len(devs) - 1))
         \o (IF IsSome(Last(devs).primary_ip4) THEN <<>>
             ELSE <<MissingIpWarning(Last(devs))>>)

NetboxNormalize ==
  /\ pc = "normalize_netbox"
  /\ netbox_simplified_devices' = Collect(NetboxPairs(netbox_devices))
  /\ log' = log \o MissingIpWarnings(netbox_devices)
  /\ Proceed("normalize_netbox", "compare")
  /\ UNCHANGED <<check, netbox_vms_filter, netshot_devices,
                 netshot_simplified_inventory, netbox_devices,
                 devices_to_register, devices_to_disable, reg_done, dis_done,
                 calls>>

\* The loop without the lookup in the other map: every key is pushed.
MissingFrom_NoLookup(order, other) == order

\* for (ip, _) in &mine { match other.get(ip) { None => out.push(ip.clone()), .. } }
\* with `order` the order in which the map yields its keys.
MissingFrom(order, other) ==
  SelectSeq(order, LAMBDA ip : ip \notin DOMAIN other)

Compare ==
  /\ pc = "compare"
  /\ \E order \in Orderings(DOMAIN netbox_simplified_devices) :
       devices_to_register' = MissingFrom(order, netshot_simplified_inventory)
  /\ \E order \in Orderings(DOMAIN netshot_simplified_inventory) :
       devices_to_disable' = MissingFrom(order, netbox_simplified_devices)
  /\ Proceed("compare", "apply")
  /\ UNCHANGED <<check, netbox_vms_filter, netshot_devices,
                 netshot_simplified_inventory, netbox_devices,
                 netbox_simplified_devices, reg_done, dis_done, calls, log>>

\* The apply block without its guard.
ApplyChanges_Always == TRUE

\* if !opt.check { .. }
ApplyChanges == ~check

Call(op, ip, err) == [op |-> op, ip |-> ip, err |-> err]

\* register_device(..)? : the first failure ends the run.
RegisterDevice_Propagate ==
  /\ pc = "apply"
  /\ ApplyChanges
  /\ reg_done < Len(devices_to_register)
  /\ LET device == devices_to_register[reg_done + 1]
     IN  \/ /\ calls' = Append(calls, Call("register", device, None))
            /\ log' = log
            /\ trace' = Append(trace, Event("register", TRUE))
            /\ UNCHANGED <<pc, result>>
         \/ \E error \in ActionErrors(device) :
              /\ calls' = Append(calls, Call("register", device, Some(error)))
              /\ log' = log
              /\ Abort("register", "err")
  /\ reg_done' = reg_done + 1
  /\ UNCHANGED <<check, netbox_vms_filter, netshot_devices,
                 netshot_simplified_inventory, netbox_devices,
                 netbox_simplified_devices, devices_to_register,
                 devices_to_disable, dis_done>>

\* One iteration of `for device in devices_to_register`.
RegisterDevice ==
  /\ pc = "apply"
  /\ ApplyChanges
  /\ reg_done < Len(devices_to_register)
  /\ LET device == devices_to_register[reg_done + 1]
     IN  \/ /\ calls' = Append(calls, Call("register", device, None))
            /\ log' = log
            /\ trace' = Append(trace, Event("register", TRUE))
         \/ \E error \in ActionErrors(device) :
              /\ calls' = Append(calls, Call("register", device, Some(error)))
              /\ log' = Append(log, <<"Registration failure: ">> \o error)
              /\ trace' = Append(trace, Event("register", FALSE))
  /\ reg_done' = reg_done + 1
  /\ UNCHANGED <<pc, result, check, netbox_vms_filter, netshot_devices,
                 netshot_simplified_inventory, netbox_devices,
                 netbox_simplified_devices, devices_to_register,
                 devices_to_disable, dis_done>>

\* disable_device(..)? : the first failure ends the run.
DisableDevice_Propagate ==
  /\ pc = "apply"
  /\ ApplyChanges
  /\ reg_done = Len(devices_to_register)
  /\ dis_done < Len(devices_to_disable)
  /\ LET device == devices_to_disable[dis_done + 1]
     IN  \/ /\ calls' = Append(calls, Call("disable", device, None))
            /\ log' = log
            /\ trace' = Append(trace, Event("disable", TRUE))
            /\ UNCHANGED <<pc, result>>
         \/ \E error \in ActionErrors(device) :
              /\ calls' = Append(calls, Call("disable", device, Some(error)))
              /\ log' = log
              /\ Abort("disable", "err")
  /\ dis_done' = dis_done + 1
  /\ UNCHANGED <<check, netbox_vms_filter, netshot_devices,
                 netshot_simplified_inventory, netbox_devices,
                 netbox_simplified_devices, devices_to_register,
                 devices_to_disable, reg_done>>

\* The disable loop not waiting for the register loop to end.
DisableDevice_Eager ==
  /\ pc = "apply"
  /\ ApplyChanges
  /\ dis_done < Len(devices_to_disable)
  /\ LET device == devices_to_disable[dis_done + 1]
     IN  \/ /\ calls' = Append(calls, Call("disable", device, None))
            /\ log' = log
            /\ trace' = Append(trace, Event("disable", TRUE))
         \/ \E error \in ActionErrors(device) :
              /\ calls' = Append(calls, Call("disable", device, Some(error)))
              /\ log' = Append(log, <<"Disable failure: ">> \o error)
              /\ trace' = Append(trace, Event("disable", FALSE))
  /\ dis_done' = dis_done + 1
  /\ UNCHANGED <<pc, result, check, netbox_vms_filter, netshot_devices,
                 netshot_simplified_inventory, netbox_devices,
                 netbox_simplified_devices, devices_to_register,
                 devices_to_disable, reg_done>>

\* One iteration of `for device in devices_to_disable`.
DisableDevice ==
  /\ pc = "apply"
  /\ ApplyChanges
  /\ reg_done = Len(devices_to_register)
  /\ dis_done < Len(devices_to_disable)
  /\ LET device == devices_to_disable[dis_done + 1]
     IN  \/ /\ calls' = Append(calls, Call("disable", device, None))
            /\ log' = log
            /\ trace' = Append(trace, Event("disable", TRUE))
         \/ \E error \in ActionErrors(device) :
              /\ calls' = Append(calls, Call("disable", device, Some(error)))
              /\ log' = Append(log, <<"Disable failure: ">> \o error)
              /\ trace' = Append(trace, Event("disable", FALSE))
  /\ dis_done' = dis_done + 1
  /\ UNCHANGED <<pc, result, check, netbox_vms_filter, netshot_devices,
                 netshot_simplified_inventory, netbox_devices,
                 netbox_simplified_devices, devices_to_register,
                 devices_to_disable, reg_done>>

\* Ok(())
Finish ==
  /\ pc = "apply"
  /\ \/ ~ApplyChanges
     \/ /\ reg_done = Len(devices_to_register)
        /\ dis_done = Len(devices_to_disable)
  /\ pc' = "done"
  /\ result' = "ok"
  /\ trace' = Append(trace, Event("exit", TRUE))
  /\ UNCHANGED <<check, netbox_vms_filter, data>>

Next ==
  \/ ParseArgs
  \/ LoggerInit
  \/ NetboxNew
  \/ NetboxPing
  \/ NetshotNew
  \/ NetshotPing
  \/ NetshotGetDevices
  \/ NetshotNormalize
  \/ NetboxGetDevices
  \/ NetboxGetVms
  \/ NetboxNormalize
  \/ Compare
  \/ RegisterDevice
  \/ DisableDevice
  \/ Finish

Spec == Init /\ [][Next]_vars

\* ================================================================ claims

Happened(step) == \E i \in 1..Len(trace) : trace[i].step = step
NoRepeat(s) == \A i, j \in 1..Len(s) : s[i] = s[j] => i = j
IsPrefix(s, t) == Len(s) <= Len(t) /\ SubSeq(t, 1, Len(s)) = s
NetboxKeys == DOMAIN netbox_simplified_devices
NetshotKeys == DOMAIN netshot_simplified_inventory
FetchSteps == {"fetch_netshot", "fetch_netbox", "fetch_vms"}
StartupSteps == {"args", "logger", "netbox_new", "netbox_ping", "netshot_new", "netshot_ping"}
Failures == {"usage", "err", "panic"}
Successes == {"ok", "help"}
FailedCalls == SelectSeq(calls, LAMBDA c : IsSome(c.err))
CallsOf(op) == SelectSeq(calls, LAMBDA c : c.op = op)
Ips(cs) == [i \in 1..Len(cs) |-> cs[i].ip]

\* C1: after the comparison, devices_to_register holds exactly the Netbox
\* keys that are not Netshot keys and devices_to_disable exactly the Netshot
\* keys that are not Netbox keys, each once; a key of both maps is in neither
\* list and the lists are disjoint.
C1_Comparison ==
  Happened("compare") =>
    /\ Range(devices_to_register) = NetboxKeys \ NetshotKeys
    /\ Range(devices_to_disable) = NetshotKeys \ NetboxKeys
    /\ NoRepeat(devices_to_register)
    /\ NoRepeat(devices_to_disable)
    /\ Range(devices_to_register) \cap Range(devices_to_disable) = {}
    /\ \A ip \in NetboxKeys \cap NetshotKeys :
         ip \notin Range(devices_to_register) \cup Range(devices_to_disable)

C1_Witness ==
  /\ Happened("compare")
  /\ devices_to_register # <<>>
  /\ devices_to_disable # <<>>
  /\ NetboxKeys \cap NetshotKeys # {}

\* C2: in check mode no register_device or disable_device call is ever
\* made, and the two lists are still the two key differences of the
\* inventories, as they are without the flag.
C2_CheckMode ==
  /\ check =>
       /\ calls = <<>>
       /\ ~Happened("register")
       /\ ~Happened("disable")
  /\ pc \in {"apply", "done"} /\ Happened("compare") =>
       /\ {ip \in NetboxKeys : ip \notin NetshotKeys} = Range(devices_to_register)
       /\ {ip \in NetshotKeys : ip \notin NetboxKeys} = Range(devices_to_disable)

C2_Witness ==
  /\ check
  /\ pc = "done"
  /\ result = "ok"
  /\ Len(devices_to_register) >= 1
  /\ Len(devices_to_disable) >= 1

\* The calls a run that applies its actions has to make, in order.
C3_Expected ==
  [i \in 1..Len(devices_to_register) |-> <<"register", devices_to_register[i]>>]
    \o [i \in 1..Len(devices_to_disable) |-> <<"disable", devices_to_disable[i]>>]

\* The calls made so far, as (operation, IP).
C3_Made == [i \in 1..Len(calls) |-> <<calls[i].op, calls[i].ip>>]

\* C3: without the check flag and with the fetches done, the calls made are
\* at every moment the first calls of "register each IP of
\* devices_to_register, then disable each IP of devices_to_disable", and the
\* run always ends, with success, having made all of them, each once,
\* whichever of them failed.
C3_EveryItemOnce ==
  /\ ~Happened("compare") => calls = <<>>
  /\ ~check /\ Happened("compare") =>
       /\ IsPrefix(C3_Made, C3_Expected)
       /\ pc = "apply" => result = "running" /\ ENABLED Next
       /\ pc = "done" => result = "ok" /\ C3_Made = C3_Expected

C3_Witness ==
  /\ pc = "done"
  /\ ~check
  /\ Len(devices_to_register) >= 2
  /\ Len(devices_to_disable) >= 1
  /\ IsSome(calls[1].err)
  /\ ~IsSome(calls[2].err)
  /\ Len(calls) = Len(devices_to_register) + Len(devices_to_disable)

\* C4: a failed listing call (Netshot devices, Netbox devices, Netbox
\* virtual machines) is the last step of the run: main returns the error,
\* nothing is compared and no register_device or disable_device call is made.
C4_FetchFailureAborts ==
  \A i \in 1..Len(trace) :
    trace[i].step \in FetchSteps /\ ~trace[i].ok =>
      /\ i = Len(trace)
      /\ pc = "done"
      /\ result = "err"
      /\ calls = <<>>
      /\ devices_to_register = <<>>
      /\ devices_to_disable = <<>>

C4_Witness ==
  /\ trace # <<>>
  /\ Last(trace) = Event("fetch_vms", FALSE)
  /\ netbox_devices # <<>>
  /\ NetshotKeys # {}
  /\ pc = "done"

\* C5 as stated: the run fails only if a fetch operation failed, and ends
\* with success whenever the fetch operations succeeded.
C5_OnlyFetchFails ==
  /\ result \in Failures =>
       \E i \in 1..Len(trace) : trace[i].step \in FetchSteps /\ ~trace[i].ok
  /\ pc = "done" /\ (\A i \in 1..Len(trace) : trace[i].step \in FetchSteps => trace[i].ok)
       => result \in Successes

\* C5 amended: the run fails only if the last step it took was a failed
\* start-up step (command line, logger, client construction, ping) or a
\* failed listing call, before any register_device or disable_device call;
\* a run in which all of these succeed ends with success, however many
\* calls failed.
C5_ExitStatus ==
  /\ result \in Failures =>
       /\ trace # <<>>
       /\ Last(trace).step \in StartupSteps \cup FetchSteps
       /\ ~Last(trace).ok
       /\ calls = <<>>
  /\ pc = "done"
       /\ (\A i \in 1..Len(trace) :
             trace[i].step \in StartupSteps \cup FetchSteps => trace[i].ok)
       => result \in Successes

C5_Witness ==
  /\ pc = "done"
  /\ result = "ok"
  /\ Len(calls) >= 2
  /\ Len(FailedCalls) = Len(calls)

\* C6 as stated: no key of a normalized inventory is the empty string, and
\* the empty string is never passed to register_device or disable_device.
C6_NoEmptyIp ==
  /\ <<>> \notin NetboxKeys
  /\ <<>> \notin NetshotKeys
  /\ \A i \in 1..Len(calls) : calls[i].ip # <<>>

\* `part` occurs in `text`.
Mentions(text, part) ==
  \E i \in 0..(Len(text) - Len(part)) : SubSeq(text, i + 1, i + Len(part)) = part

\* The warnings of the two apply loops, in order.
FailureWarnings ==
  SelectSeq(log, LAMBDA line : line[1] \in {"Registration failure: ", "Disable failure: "})

\* C7 as stated: the warning logged for a failed call contains the IP of
\* that call and the error.
C7_WarningNamesIp ==
  /\ Len(FailureWarnings) = Len(FailedCalls)
  /\ \A k \in 1..Len(FailedCalls) :
       /\ Mentions(FailureWarnings[k], Unwrap(FailedCalls[k].err))
       /\ Mentions(FailureWarnings[k], FailedCalls[k].ip)

\* The number a decimal text denotes.
DigitValue(c) == CHOOSE d \in 0..9 : Digits[d + 1] = c

RECURSIVE DecimalValue(_)
DecimalValue(text) ==
  IF text = <<>> THEN 0
  ELSE 10 * DecimalValue(SubSeq(text, 1, Len(text) - 1)) + DigitValue(Last(text))

\* `key` is the text of `address` before its first '/'.
IsBareOf(key, address) ==
  /\ IsPrefix(key, address)
  /\ "/" \notin Range(key)
  /\ Len(key) < Len(address) => address[Len(key) + 1] = "/"

\* `text` is the record's name, or without one its id in decimal.
IsLabelOf(text, record) ==
  IF record.name # None THEN <<text>> = record.name
  ELSE /\ text # <<>>
       /\ Range(text) \subseteq Range(Digits)
       /\ Len(text) > 1 => text[1] # "0"
       /\ DecimalValue(text) = record.id

\* The records whose primary IPv4 has `key` as its bare IP.
Carriers(key) ==
  {i \in 1..Len(netbox_devices) :
     /\ netbox_devices[i].primary_ip4 # None
     /\ IsBareOf(key, netbox_devices[i].primary_ip4[1].address)}

\* The inventory in terms of the records it was built from.
C8_FoldInvariant ==
  /\ Happened("fetch_vms") => netbox_vms_filter # None
  /\ Happened("normalize_netbox") =>
       /\ netbox_vms_filter # None => Happened("fetch_vms")
       /\ \A i \in 1..Len(netbox_devices) :
            netbox_devices[i].primary_ip4 # None =>
              \E key \in NetboxKeys :
                IsBareOf(key, netbox_devices[i].primary_ip4[1].address)
       /\ \A key \in NetboxKeys :
            LET from == Carriers(key)
            IN  /\ from # {}
                /\ \E last \in from :
                     /\ \A j \in from : j <= last
                     /\ IsLabelOf(netbox_simplified_devices[key], netbox_devices[last])
       /\ Len(log) >= Cardinality({i \in 1..Len(netbox_devices) :
                                     netbox_devices[i].primary_ip4 = None})

\* The virtual machines are appended after the devices.
C8_VmsAfterDevices ==
  pc = "fetch_vms" /\ pc' = "normalize_netbox" => IsPrefix(netbox_devices, netbox_devices')

\* C8: the normalized Netbox inventory is the fold of the device records
\* followed by the virtual-machine records (fetched exactly when a filter is
\* given): its keys are the texts before the first '/' of the addresses of
\* the records that have a primary IPv4, a record without one adds nothing,
\* and each key maps to the label (name, else the decimal id) of the last
\* record carrying it.
C8_NetboxInventoryIsFold == [](C8_FoldInvariant) /\ [][C8_VmsAfterDevices]_vars

C8_Witness ==
  /\ Happened("fetch_vms")
  /\ Happened("normalize_netbox")
  /\ Len(netbox_devices) = 2
  /\ netbox_devices[1].name # None
  /\ netbox_devices[2].name = None
  /\ netbox_devices[1].primary_ip4 = Some([address |-> <<"1", "/", "8">>])
  /\ netbox_devices[2].primary_ip4 = Some([address |-> <<"1">>])
  /\ netbox_simplified_devices = [k \in {<<"1">>} |-> <<"1", "2">>]

\* Step `b` is only taken after step `a`.
Before(a, b) ==
  \A i \in 1..Len(trace) :
    trace[i].step = b => \E j \in 1..(i - 1) : trace[j].step = a

\* C9 as stated: the Netbox fetch is issued before the Netshot fetch, and
\* neither inventory is normalized before both fetches have returned.
C9_NetboxFetchedFirst ==
  /\ Before("fetch_netbox", "fetch_netshot")
  /\ Before("fetch_netbox", "normalize_netshot")
  /\ Before("fetch_netshot", "normalize_netbox")
  /\ Before("normalize_netshot", "compare")
  /\ Before("normalize_netbox", "compare")
  /\ Before("compare", "register")
  /\ Before("compare", "disable")

\* The fetch, normalize and compare steps of a complete run.
C9_Order ==
  <<"fetch_netshot", "normalize_netshot", "fetch_netbox">>
    \o (IF netbox_vms_filter # None THEN <<"fetch_vms">> ELSE <<>>)
    \o <<"normalize_netbox", "compare">>

\* The fetch, normalize and compare steps taken so far.
C9_Steps ==
  LET kept == SelectSeq(trace, LAMBDA e : e.step \in FetchSteps \cup
                 {"normalize_netshot", "normalize_netbox", "compare"})
  IN  [i \in 1..Len(kept) |-> kept[i].step]

\* C9 amended: the steps of a run are, in this order: the Netshot records
\* are fetched, the Netshot inventory is normalized, the Netbox devices are
\* fetched, the Netbox virtual machines are fetched (exactly when a filter is
\* given), the Netbox inventory is normalized, the inventories are compared,
\* and then, unless in check mode, the actions are applied.
C9_StepOrder ==
  /\ IsPrefix(C9_Steps, C9_Order)
  /\ \A i \in 1..Len(trace) :
       trace[i].step \in {"register", "disable"} =>
         /\ ~check
         /\ \E j \in 1..(i - 1) : trace[j].step = "compare"

C9_Witness ==
  /\ pc = "done"
  /\ netbox_vms_filter # None
  /\ C9_Steps = C9_Order
  /\ Happened("register")
  /\ Happened("disable")

\* C10: every register_device call precedes every disable_device call, and
\* a run that applies actions ends having called disable_device for every IP
\* of devices_to_disable, whatever the register_device calls returned.
C10_RegisterThenDisable ==
  /\ \A i, j \in 1..Len(calls) :
       calls[i].op = "register" /\ calls[j].op = "disable" => i < j
  /\ pc = "done" /\ ~check /\ Happened("compare") =>
       Ips(CallsOf("disable")) = devices_to_disable

C10_Witness ==
  /\ pc = "done"
  /\ Len(CallsOf("register")) >= 1
  /\ \A i \in 1..Len(calls) : calls[i].op = "register" => IsSome(calls[i].err)
  /\ Len(CallsOf("disable")) >= 1
  /\ Ips(CallsOf("disable")) = devices_to_disable

====
